---- MODULE Spec2Model ----
(***************************************************************************)
(* Model of dbmeta: the table facade (database.py), the row stores         *)
(* (store.py, tuple_store.py), the weak handle registry (weakcoll.py) and  *)
(* the JSON document synchroniser (json_store.py).                         *)
(*                                                                         *)
(* The specifications share the variables:                                *)
(*   SpecTable  a SeqDatabase / AssocDatabase over a MutableTuple*Store,   *)
(*              with live Row handles;                                     *)
(*   SpecSelect the same databases queried with select and select_one;     *)
(*   SpecJson   a MutableJSONSeqStore / MutableJSONAssocStore with its     *)
(*              patch log and the document on disk;                        *)
(*   SpecJsonLocal  the same store as the only writer of its document;     *)
(*   SpecImmutable  the immutable stores;                                  *)
(*   SpecRegistry   a SeqDatabase and the registry of its Row handles;     *)
(*   SpecSchema the database classes DBMeta.__new__ resolves.              *)
(***************************************************************************)
EXTENDS Integers, Sequences, FiniteSets, TLC

\* ------------------------------------------------------------------ bounds
MaxLen == 2          \* most rows held by a store
MaxRid == 3          \* most rows ever appended to a sequential store
MaxHandles == 3      \* most Row objects alive at one time
MaxSel == 3          \* longest selection sequence
MaxLog == 3          \* longest patch log
MaxClasses == 5      \* most database classes, DBBase among them
MaxSize == 7         \* most classes defined and attributes declared, together

\* --------------------------------------------------------------- sentinels
Absent == 0 - 97     \* a key that is not in a dict (the KeyError case)
NO_DEFAULT == 0 - 98 \* ColumnDesc.NO_DEFAULT
None == 0 - 99       \* Python's None

\* ------------------------------------------------------------------ schema
\* The table definition under study:
\*     a = ColumnDesc()
\*     b = ColumnDesc(default=0, type=flip, store_type=flip)
\*     id = IndexColumnDesc(read_func=int, write_func=str)
\* A row tuple is <<a, b>>; a dict over the column names (row_data, or a
\* JSON row object) is <<a, b>> too, with Absent for a missing key.
NCols == 2
ColIdx == 1..NCols
Vals == {0, 1}
Keys == {1, 2}
Handles == 1..MaxHandles

default(c) == IF c = 1 THEN NO_DEFAULT ELSE 0

Tuples == [ColIdx -> Vals]
Dicts == [ColIdx -> Vals \cup {Absent}]

VARIABLES
    kind,        \* "seq" | "assoc": which database/store pair was built
    data,        \* store._data: seq -> <<tuple, ...>>; assoc -> <<<<key, tuple>>, ...>> in dict order
    rid,         \* ghost: identity of the row at each position of a sequential store
    nrid,        \* ghost: next row identity
    rows,        \* the Row objects: h -> [held, index, row]
    refs,        \* db._references._refs: the registered Row objects
    patches,     \* store._patches
    disk,        \* the file at store._db_file
    side,        \* the side files written next to it
    up_on_change,\* store._up_on_change
    classes,     \* the database classes DBMeta has built, in the order of definition
    last         \* the last call and its outcome

vars == <<kind, data, rid, nrid, rows, refs, patches, disk, side, up_on_change, classes, last>>

\* The mutable state the operations work on, as one value.
St == [data |-> data, rid |-> rid, nrid |-> nrid, rows |-> rows, refs |-> refs,
       patches |-> patches, disk |-> disk, side |-> side]

Commit(s) ==
    /\ data' = s.data
    /\ rid' = s.rid
    /\ nrid' = s.nrid
    /\ rows' = s.rows
    /\ refs' = s.refs
    /\ patches' = s.patches
    /\ disk' = s.disk
    /\ side' = s.side

Ok(s, r) == [st |-> s, err |-> "none", ret |-> r]
Raise(s, e) == [st |-> s, err |-> e, ret |-> None]

\* ----------------------------------------------------------- list helpers
RemoveAt(s, i) == [j \in 1..(Len(s) - 1) |-> IF j < i THEN s[j] ELSE s[j + 1]]

Range(s) == {s[j] : j \in 1..Len(s)}

\* dict helpers for the ordered dict <<<<key, value>>, ...>>
DictKeys(d) == [j \in 1..Len(d) |-> d[j][1]]
HasKey(d, k) == \E j \in 1..Len(d) : d[j][1] = k
PosOf(d, k) == CHOOSE j \in 1..Len(d) : d[j][1] = k
DictGet(d, k) == d[PosOf(d, k)][2]
DictSet(d, k, v) ==
    IF HasKey(d, k) THEN [d EXCEPT ![PosOf(d, k)] = <<k, v>>]
    ELSE Append(d, <<k, v>>)
DictDel(d, k) == RemoveAt(d, PosOf(d, k))

Min(a, b) == IF a < b THEN a ELSE b
SetMin(S) == CHOOSE m \in S : \A n \in S : m <= n

\* ------------------------------------------------------------ conversions
\* ColumnDescBase.type / store_type: column a keeps the default, identity;
\* column b is stored flipped (0 <-> 1), type being the inverse of store_type.
identity(x) == x
flip(x) == 1 - x
store_type(c, v) == IF c = 2 THEN flip(v) ELSE identity(v)
type(c, v) == IF c = 2 THEN flip(v) ELSE identity(v)

\* reader(identity): dct[key], or the default for a missing key; KeyError
\* when the key is missing and the column has no default.
read_misses(d) == \E c \in ColIdx : d[c] = Absent /\ default(c) = NO_DEFAULT
read_identity(c, d) == IF d[c] = Absent THEN default(c) ELSE identity(d[c])

\* a variant of _convert_data_for_store that converts the supplied values
\* only and hands a default on as it is declared
convert_supplied_only(row_data) ==
    IF read_misses(row_data) THEN [err |-> "KeyError", v |-> row_data]
    ELSE [err |-> "none",
          v |-> [c \in ColIdx |-> IF row_data[c] = Absent THEN default(c)
                                  ELSE store_type(c, row_data[c])]]

\* DBBase._convert_data_for_store: the dict handed to the store.
convert_data_for_store(row_data) ==
    IF read_misses(row_data) THEN [err |-> "KeyError", v |-> row_data]
    ELSE [err |-> "none",
          v |-> [c \in ColIdx |-> store_type(c, read_identity(c, row_data))]]

\* TupleStore._dict_to_tuple
dict_to_tuple(d) ==
    IF read_misses(d) THEN [err |-> "KeyError", v |-> d]
    ELSE [err |-> "none", v |-> [c \in ColIdx |-> read_identity(c, d)]]

\* --------------------------------------------------------------- WeakColl
\* _refs is keyed by id(obj): a Row object is in it at most once.
WeakColl_append(r, h) == IF h \in r THEN r ELSE r \cup {h}
WeakColl_remove(r, h) == r \ {h}
WeakColl_rm_by_ref(r, h) == r \ {h}

FreeRow == [held |-> FALSE, index |-> 0, row |-> 0]

\* a variant of flush that keeps the entries whose Row is gone
flush_keeping_dead(s) == s

\* WeakColl.flush: the entries whose Row is gone are dropped
WeakColl_flush(s) == [s EXCEPT !.refs = {h \in s.refs : s.rows[h].held}]
\* WeakColl.__len__ and __iter__, of a collection just flushed
WeakColl_len(s) == Cardinality(s.refs)
WeakColl_iter(s) == s.refs

\* ------------------------------------------------------------------- Row
\* ghost: the logical row a new handle at `index` denotes (0: none)
Denoted(s, index) ==
    IF kind = "assoc" THEN index
    ELSE IF index >= 0 /\ index < Len(s.rid) THEN s.rid[index + 1] ELSE 0

\* a variant of Row.__init__ that registers by value: a Row is not entered
\* when a registered Row already holds its index
Row_init_by_value(s, h, index) ==
    [s EXCEPT !.rows[h] = [held |-> TRUE, index |-> identity(index),
                           row |-> Denoted(s, index)],
              !.refs = IF \E g \in s.refs : s.rows[g].held /\ s.rows[g].index = identity(index)
                       THEN s.refs ELSE WeakColl_append(s.refs, h)]

\* Row.__init__(db, index): no check of index against the store.
Row_init(s, h, index) ==
    [s EXCEPT !.rows[h] = [held |-> TRUE, index |-> identity(index),
                           row |-> Denoted(s, index)],
              !.refs = WeakColl_append(s.refs, h)]

\* ----------------------------------------------------------- tuple stores
\* MutableTupleSeqStore.append
MutableTupleSeqStore_append(s, row_data) ==
    LET t == dict_to_tuple(row_data) IN
    IF t.err # "none" THEN Raise(s, t.err)
    ELSE Ok([s EXCEPT !.data = Append(s.data, t.v),
                      !.rid = Append(s.rid, s.nrid),
                      !.nrid = s.nrid + 1], None)

\* SeqDatabase._remap_indices: every registered Row whose index is a key of
\* remap takes the mapped index.
remap_indices(s, remap) ==
    LET f == WeakColl_flush(s) IN
    [f EXCEPT !.rows = [h \in Handles |->
        IF h \in WeakColl_iter(f) /\ f.rows[h].index \in DOMAIN remap
        THEN [f.rows[h] EXCEPT !.index = remap[f.rows[h].index]]
        ELSE f.rows[h]]]

\* MutableSeqStore.__delitem__: called after the row is gone.
MutableSeqStore_delitem(s, row_idx) ==
    LET remap == [k \in {idx + 1 : idx \in row_idx..(Len(s.data) - 1)} |-> k - 1] IN
    IF DOMAIN remap = {} THEN s ELSE remap_indices(s, remap)

\* MutableTupleSeqStore.__delitem__ (row_idx >= 0)
MutableTupleSeqStore_delitem(s, row_idx) ==
    IF row_idx >= Len(s.data) THEN Raise(s, "IndexError")
    ELSE Ok(MutableSeqStore_delitem(
                [s EXCEPT !.data = RemoveAt(s.data, row_idx + 1),
                          !.rid = RemoveAt(s.rid, row_idx + 1)], row_idx), None)

\* a variant of __setitem__ that writes the value to every slot of the row
setitem_filling_row(s, row_idx, col_idx, value) ==
    IF row_idx >= Len(s.data) THEN Raise(s, "IndexError")
    ELSE Ok([s EXCEPT !.data[row_idx + 1] = [i \in ColIdx |-> value]], None)

\* MutableTupleSeqStore.__setitem__ (row_idx >= 0; col_idx is the 0-based slot)
MutableTupleSeqStore_setitem(s, row_idx, col_idx, value) ==
    IF row_idx >= Len(s.data) THEN Raise(s, "IndexError")
    ELSE Ok([s EXCEPT !.data[row_idx + 1] =
                [i \in ColIdx |-> IF i - 1 = col_idx THEN value ELSE s.data[row_idx + 1][i]]],
            None)

\* a variant of add that takes a key the store already holds
add_over_existing(s, index, row_data) ==
    LET t == dict_to_tuple(row_data) IN
    IF t.err # "none" THEN Raise(s, t.err)
    ELSE Ok([s EXCEPT !.data = DictSet(s.data, index, t.v)], None)

\* MutableTupleAssocStore.add
MutableTupleAssocStore_add(s, index, row_data) ==
    IF HasKey(s.data, index) THEN Raise(s, "KeyError")
    ELSE LET t == dict_to_tuple(row_data) IN
         IF t.err # "none" THEN Raise(s, t.err)
         ELSE Ok([s EXCEPT !.data = DictSet(s.data, index, t.v)], None)

\* MutableTupleAssocStore.__setitem__
MutableTupleAssocStore_setitem(s, row_idx, col_idx, value) ==
    IF ~HasKey(s.data, row_idx) THEN Raise(s, "KeyError")
    ELSE Ok([s EXCEPT !.data = DictSet(s.data, row_idx,
                [i \in ColIdx |-> IF i - 1 = col_idx THEN value
                                  ELSE DictGet(s.data, row_idx)[i]])], None)

\* MutableTupleAssocStore.__delitem__
MutableTupleAssocStore_delitem(s, row_idx) ==
    IF ~HasKey(s.data, row_idx) THEN Raise(s, "KeyError")
    ELSE Ok([s EXCEPT !.data = DictDel(s.data, row_idx)], None)

\* --------------------------------------------------------------- database
\* DBBase.__getitem__: a new Row object h, registered by Row.__init__.
DBBase_getitem(s, h, idx) == Ok(Row_init(s, h, idx), idx)

\* SeqDatabase.__getitem__: the Row built by the base class is not returned;
\* nothing refers to it, so it is reclaimed on the spot and its weakref
\* callback (WeakColl.rm_by_ref) takes it out of _refs again.  The call
\* returns None.  `None < 0` is a TypeError.
SeqDatabase_getitem(s, index) ==
    IF index = None THEN Raise(s, "TypeError")
    ELSE IF index < 0 /\ Len(s.data) + index < 0 THEN Raise(s, "IndexError")
    ELSE Ok(s, None)

\* SeqDatabase.append
SeqDatabase_append(s, row_data) ==
    LET c == convert_data_for_store(row_data) IN
    IF c.err # "none" THEN Raise(s, c.err)
    ELSE LET a == MutableTupleSeqStore_append(s, c.v) IN
         IF a.err # "none" THEN a ELSE SeqDatabase_getitem(a.st, 0 - 1)

\* AssocDatabase.add: the Row it returns is not kept by the caller here.
AssocDatabase_add(s, index, row_data) ==
    LET c == convert_data_for_store(row_data) IN
    IF c.err # "none" THEN Raise(s, c.err)
    ELSE LET a == MutableTupleAssocStore_add(s, identity(index), c.v) IN
         IF a.err # "none" THEN a ELSE Ok(a.st, index)

\* SeqDatabase.__delitem__(row)
SeqDatabase_delitem(s, h) ==
    LET d == MutableTupleSeqStore_delitem(s, s.rows[h].index) IN
    IF d.err # "none" THEN d
    ELSE Ok([d.st EXCEPT !.refs = WeakColl_remove(d.st.refs, h)], None)

\* Column.set through Field.fset
Column_set(s, h, col_idx, value) ==
    IF kind = "seq"
    THEN MutableTupleSeqStore_setitem(s, s.rows[h].index, col_idx, store_type(col_idx + 1, value))
    ELSE MutableTupleAssocStore_setitem(s, s.rows[h].index, col_idx, store_type(col_idx + 1, value))

\* iter(db), as far as zip() can pull from it against a selection of length m.
\* SeqDatabase: Sequence.__iter__ yields self[0], self[1], ... until
\* IndexError; SeqDatabase.__getitem__ raises none for i >= 0 and returns
\* None, so the stream is None, None, ... without end.
\* AssocDatabase.__iter__: the store's keys through the key column's type.
db_iter(s, m) ==
    IF kind = "seq" THEN [j \in 1..m |-> None]
    ELSE [j \in 1..Min(m, Len(s.data)) |-> identity(DictKeys(s.data)[j])]

\* self[idx] as select evaluates it; the Rows it yields are not kept.
select_getitem(s, idx) ==
    IF kind = "seq" THEN SeqDatabase_getitem(s, idx) ELSE Ok(s, idx)

\* DBBase.select, consumed to its end: the indices of the Rows it yields
\* and the error that ends it, if one does.
RECURSIVE select_from(_, _, _, _)
select_from(s, its, selection, j) ==
    IF j > Len(its) \/ j > Len(selection) THEN [out |-> <<>>, err |-> "none"]
    ELSE IF ~selection[j] THEN select_from(s, its, selection, j + 1)
    ELSE LET g == select_getitem(s, its[j]) IN
         IF g.err # "none" THEN [out |-> <<>>, err |-> g.err]
         ELSE LET rest == select_from(s, its, selection, j + 1) IN
              [out |-> <<g.ret>> \o rest.out, err |-> rest.err]

select(s, selection) == select_from(s, db_iter(s, Len(selection)), selection, 1)

\* DBBase.select_one: two next() calls on the generator.
select_one(s, selection) ==
    LET sel == select(s, selection) IN
    IF Len(sel.out) = 0
    THEN (IF sel.err # "none" THEN Raise(s, sel.err) ELSE Raise(s, "KeyError: No rows selected!"))
    ELSE IF Len(sel.out) = 1
    THEN (IF sel.err # "none" THEN Raise(s, sel.err)
          ELSE Raise(s, "KeyError: More than one row selected!"))
    ELSE Ok(s, sel.out[1])

\* ================================================================ SpecTable
\* A database over a plain mutable tuple store, driven through the facade.
NoFile == [t |-> "absent", v |-> <<>>]

Call(op, arg, r) ==
    [op |-> op, arg |-> arg, err |-> r.err, ret |-> r.ret, out |-> <<>>, row |-> None]
\* a call that is given row_data
CallRow(op, arg, row_data, r) == [Call(op, arg, r) EXCEPT !.row = row_data]

Selections == UNION {[1..n -> BOOLEAN] : n \in 0..MaxSel}
GetArgs == (0 - (MaxLen + 1))..(MaxLen + 1)

InitTable ==
    /\ kind \in {"seq", "assoc"}
    /\ classes = <<>>
    /\ data = <<>>
    /\ rid = <<>>
    /\ nrid = 1
    /\ rows = [h \in Handles |-> FreeRow]
    /\ refs = {}
    /\ patches = <<>>
    /\ disk = NoFile
    /\ side = {}
    /\ up_on_change = FALSE
    /\ last = [op |-> "init", arg |-> None, err |-> "none", ret |-> None, out |-> <<>>, row |-> None]

\* db.append(**row_data)
Append_(row_data) ==
    /\ kind = "seq"
    /\ Len(data) < MaxLen
    /\ nrid <= MaxRid
    /\ LET r == SeqDatabase_append(St, row_data) IN
       Commit(r.st) /\ last' = CallRow("append", None, row_data, r)
    /\ UNCHANGED <<classes, kind, up_on_change>>

\* db.add(id=k, **row_data)
Add(k, row_data) ==
    /\ kind = "assoc"
    /\ Len(data) < MaxLen \/ HasKey(data, k)
    /\ LET r == AssocDatabase_add(St, k, row_data) IN
       Commit(r.st) /\ last' = CallRow("add", k, row_data, r)
    /\ UNCHANGED <<classes, kind, up_on_change>>

\* db[i] on a sequential database
GetSeq(i) ==
    /\ kind = "seq"
    /\ LET r == SeqDatabase_getitem(St, i) IN
       Commit(r.st) /\ last' = Call("get", i, r)
    /\ UNCHANGED <<classes, kind, up_on_change>>

\* db[k] on an associative database; the caller keeps the Row as h
GetAssoc(h, k) ==
    /\ kind = "assoc"
    /\ ~rows[h].held
    /\ LET r == DBBase_getitem(St, h, k) IN
       Commit(r.st) /\ last' = Call("get", k, r)
    /\ UNCHANGED <<classes, kind, up_on_change>>

\* db._row_cls(db, i) for a row the sequential store holds: what
\* DBBase.__getitem__ does, and the one way to a live Row of a SeqDatabase
NewRow(h, i) ==
    /\ kind = "seq"
    /\ ~rows[h].held
    /\ i < Len(data)
    /\ LET r == DBBase_getitem(St, h, i) IN
       Commit(r.st) /\ last' = Call("row", i, r)
    /\ UNCHANGED <<classes, kind, up_on_change>>

\* del db[row] through the Row h the caller holds
Delete(h) ==
    /\ kind = "seq"
    /\ rows[h].held
    /\ LET r == SeqDatabase_delitem(St, h) IN
       Commit(r.st) /\ last' = [Call("delete", rows[h].index, r) EXCEPT !.ret = h]
    /\ UNCHANGED <<classes, kind, up_on_change>>

\* del db._store[k]: AssocDatabase has no __delitem__ of its own
StoreDelete(k) ==
    /\ kind = "assoc"
    /\ LET r == MutableTupleAssocStore_delitem(St, k) IN
       Commit(r.st) /\ last' = Call("delete", k, r)
    /\ UNCHANGED <<classes, kind, up_on_change>>

\* row.<column> = value through the Row h
SetField(h, col_idx, value) ==
    /\ rows[h].held
    /\ LET r == Column_set(St, h, col_idx, value) IN
       Commit(r.st) /\ last' = [Call("set", rows[h].index, r) EXCEPT !.ret = h]
    /\ UNCHANGED <<classes, kind, up_on_change>>

\* the caller lets go of the Row h: it is reclaimed and the weakref callback
\* removes it from the registry
Drop(h) ==
    /\ rows[h].held
    /\ rows' = [rows EXCEPT ![h] = FreeRow]
    /\ refs' = WeakColl_rm_by_ref(refs, h)
    /\ last' = [op |-> "drop", arg |-> h, err |-> "none", ret |-> None, out |-> <<>>, row |-> None]
    /\ UNCHANGED <<classes, kind, data, rid, nrid, patches, disk, side, up_on_change>>

\* list(db.select(selection))
Select(selection) ==
    /\ LET r == select(St, selection) IN
       last' = [op |-> "select", arg |-> selection, err |-> r.err, ret |-> None, out |-> r.out, row |-> None]
    /\ UNCHANGED <<classes, kind, data, rid, nrid, rows, refs, patches, disk, side, up_on_change>>

\* db.select_one(selection)
SelectOne(selection) ==
    /\ LET r == select_one(St, selection) IN
       last' = [op |-> "select_one", arg |-> selection, err |-> r.err, ret |-> r.ret, out |-> <<>>, row |-> None]
    /\ UNCHANGED <<classes, kind, data, rid, nrid, rows, refs, patches, disk, side, up_on_change>>

NextTable ==
    \/ \E d \in Dicts : Append_(d)
    \/ \E k \in Keys, d \in Dicts : Add(k, d)
    \/ \E i \in GetArgs : GetSeq(i)
    \/ \E h \in Handles, k \in Keys : GetAssoc(h, k)
    \/ \E h \in Handles, i \in 0..(MaxLen - 1) : NewRow(h, i)
    \/ \E h \in Handles : Delete(h)
    \/ \E k \in Keys : StoreDelete(k)
    \/ \E h \in Handles, c \in 0..(NCols - 1), v \in Vals : SetField(h, c, v)
    \/ \E h \in Handles : Drop(h)

SpecTable == InitTable /\ [][NextTable]_vars

\* =============================================================== SpecSelect
\* The same databases, queried with select and select_one.
NextSelect ==
    \/ \E d \in Dicts : Append_(d)
    \/ \E k \in Keys, d \in Dicts : Add(k, d)
    \/ \E k \in Keys : StoreDelete(k)
    \/ \E sel \in Selections : Select(sel)
    \/ \E sel \in Selections : SelectOne(sel)

SpecSelect == InitTable /\ [][NextSelect]_vars

\* ============================================================== JSON stores
\* A document on disk: [t |-> "absent"] no file, [t |-> "empty"] a file of
\* no bytes, [t |-> "arr", v |-> <<row object, ...>>] a JSON array,
\* [t |-> "obj", v |-> <<<<key string, row object>>, ...>>] a JSON object.
\* A row object is a dict over the columns' remote keys.
EmptyFile == [t |-> "empty", v |-> <<>>]
Arr(v) == [t |-> "arr", v |-> v]
Obj(v) == [t |-> "obj", v |-> v]
IsDoc(d) == d.t \in {"arr", "obj"}

\* str(n) and int(s) for the keys and positions that occur
Digits == <<"0", "1", "2", "3", "4", "5", "6", "7", "8", "9">>
IsInt(tok) == \E n \in 1..Len(Digits) : Digits[n] = tok
str(n) == Digits[n + 1]
int(tok) == (CHOOSE n \in 1..Len(Digits) : Digits[n] = tok) - 1

\* the key column's conversions: IndexColumnDesc(read_func=int, write_func=str)
index_write_func(k) == str(k)
index_read_func(tok) == int(tok)

\* TupleStore._remote_from_tuple: every column written under its key
remote_from_tuple(tup) == [c \in ColIdx |-> identity(tup[c])]

\* TupleStore._remote_to_tuple: every column read from its key
remote_to_tuple(d) ==
    IF read_misses(d) THEN [err |-> "KeyError", v |-> d]
    ELSE [err |-> "none", v |-> [c \in ColIdx |-> read_identity(c, d)]]

\* a patch operation; a remove carries no value
NoValue == <<>>
Op(op, tok, value) == [op |-> op, path |-> <<tok>>, value |-> value]

InsertAt(q, i, x) == SubSeq(q, 1, i) \o <<x>> \o SubSeq(q, i + 1, Len(q))

\* one operation of jsonpatch on a document (RFC 6902, one-token paths)
apply_op(doc, o) ==
    LET tok == o.path[1] IN
    IF doc.t = "arr" THEN
        IF o.op = "add" THEN
            IF tok = "-" THEN [err |-> "none", doc |-> Arr(Append(doc.v, o.value))]
            ELSE IF ~IsInt(tok) THEN [err |-> "JsonPointerException", doc |-> doc]
            ELSE IF int(tok) > Len(doc.v) THEN [err |-> "JsonPatchConflict", doc |-> doc]
            ELSE [err |-> "none", doc |-> Arr(InsertAt(doc.v, int(tok), o.value))]
        ELSE IF o.op = "remove" THEN
            IF ~IsInt(tok) THEN [err |-> "JsonPointerException", doc |-> doc]
            ELSE IF int(tok) >= Len(doc.v) THEN [err |-> "JsonPatchConflict", doc |-> doc]
            ELSE [err |-> "none", doc |-> Arr(RemoveAt(doc.v, int(tok) + 1))]
        ELSE
            IF IsInt(tok) /\ int(tok) < Len(doc.v) /\ doc.v[int(tok) + 1] = o.value
            THEN [err |-> "none", doc |-> doc]
            ELSE [err |-> "JsonPatchTestFailed", doc |-> doc]
    ELSE
        IF o.op = "add" THEN [err |-> "none", doc |-> Obj(DictSet(doc.v, tok, o.value))]
        ELSE IF o.op = "remove" THEN
            IF HasKey(doc.v, tok) THEN [err |-> "none", doc |-> Obj(DictDel(doc.v, tok))]
            ELSE [err |-> "JsonPatchConflict", doc |-> doc]
        ELSE
            IF HasKey(doc.v, tok) /\ DictGet(doc.v, tok) = o.value
            THEN [err |-> "none", doc |-> doc]
            ELSE [err |-> "JsonPatchTestFailed", doc |-> doc]

\* jsonpatch.JsonPatch(ops).apply(doc): the operations in order, the first
\* failure ending it
RECURSIVE apply_from(_, _, _)
apply_from(doc, ops, j) ==
    IF j > Len(ops) THEN [err |-> "none", doc |-> doc]
    ELSE LET r == apply_op(doc, ops[j]) IN
         IF r.err # "none" THEN r ELSE apply_from(r.doc, ops, j + 1)

JsonPatch_apply(doc, ops) == apply_from(doc, ops, 1)

\* the errors that are a jsonpatch.JsonPatchException
IsJsonPatchException(e) == e \in {"JsonPatchConflict", "JsonPatchTestFailed"}

\* TupleAssocStore.from_dict: the dict comprehension over the document
RECURSIVE from_dict_from(_, _, _)
from_dict_from(v, j, acc) ==
    IF j > Len(v) THEN [err |-> "none", v |-> acc]
    ELSE IF ~IsInt(v[j][1]) THEN [err |-> "ValueError", v |-> acc]
    ELSE LET t == remote_to_tuple(v[j][2]) IN
         IF t.err # "none" THEN [err |-> t.err, v |-> acc]
         ELSE from_dict_from(v, j + 1, DictSet(acc, index_read_func(v[j][1]), t.v))

\* store.from_dict(doc, "JSON"): TupleSeqStore defines from_remote and no
\* from_dict; iteritems() of a list is an AttributeError too
from_dict(s, doc) ==
    IF kind = "seq" \/ doc.t # "obj" THEN Raise(s, "AttributeError")
    ELSE LET r == from_dict_from(doc.v, 1, <<>>) IN
         IF r.err # "none" THEN Raise(s, r.err)
         ELSE Ok([s EXCEPT !.data = r.v], None)

\* TupleAssocStore.to_dict("JSON"); TupleSeqStore defines to_remote and no
\* to_dict
to_dict(s) ==
    IF kind = "seq" THEN [err |-> "AttributeError", doc |-> NoFile]
    ELSE [err |-> "none",
          doc |-> Obj([j \in 1..Len(s.data) |->
                        <<index_write_func(s.data[j][1]), remote_from_tuple(s.data[j][2])>>])]

\* the side file MutableJSONStore.update opens before it fails:
\* "<db_file>.<stamp>", left without content
StateSideFile == <<"stamp", "">>

\* a variant of update whose handler passes over a patch log that does not
\* apply, so that write goes on to dump the rows
update_passing_over_conflict(s) ==
    IF s.disk.t = "absent" THEN Ok(s, None)
    ELSE IF s.disk.t = "empty" THEN Raise(s, "ValueError")
    ELSE LET p == JsonPatch_apply(s.disk, s.patches) IN
         IF IsJsonPatchException(p.err) THEN Ok(s, None)
         ELSE IF p.err # "none" THEN Raise(s, p.err)
         ELSE from_dict(s, p.doc)

\* MutableJSONStore.update
MutableJSONStore_update(s) ==
    IF s.disk.t = "absent" THEN Ok(s, None)
    ELSE IF s.disk.t = "empty" THEN Raise(s, "ValueError")
    ELSE LET p == JsonPatch_apply(s.disk, s.patches) IN
         IF IsJsonPatchException(p.err)
         THEN \* the handler: open(tmp_db, 'w'), then self.to_dict() without
              \* its store_type argument
              Raise([s EXCEPT !.side = s.side \cup {StateSideFile}],
                    IF kind = "seq" THEN "AttributeError" ELSE "TypeError")
         ELSE IF p.err # "none" THEN Raise(s, p.err)
         ELSE from_dict(s, p.doc)

\* MutableJSONStore.write: open(db_file, 'w') truncates the file before
\* to_dict is evaluated
MutableJSONStore_write(s) ==
    LET u == MutableJSONStore_update(s) IN
    IF u.err # "none" THEN u
    ELSE LET d == to_dict(u.st) IN
         IF d.err # "none" THEN Raise([u.st EXCEPT !.disk = EmptyFile], d.err)
         ELSE Ok([u.st EXCEPT !.disk = d.doc], None)

\* the tail of every mutator: if self._up_on_change: self.update()
then_update(s) == IF up_on_change THEN MutableJSONStore_update(s) ELSE Ok(s, None)

\* MutableJSONStore.__setitem__: make_patch(current, value) names two
\* variables that do not exist
MutableJSONStore_setitem(s, row_idx, col_idx, value) ==
    LET w == IF kind = "seq" THEN MutableTupleSeqStore_setitem(s, row_idx, col_idx, value)
             ELSE MutableTupleAssocStore_setitem(s, row_idx, col_idx, value) IN
    IF w.err # "none" THEN w ELSE Raise(w.st, "NameError")

\* MutableJSONSeqStore.__delitem__: the test operation reads
\* self._data[idx] after the removal; "/" + idx adds a str and an int
MutableJSONSeqStore_delitem(s, idx) ==
    LET d == MutableTupleSeqStore_delitem(s, idx) IN
    IF d.err # "none" THEN d
    ELSE IF idx >= Len(d.st.data) THEN Raise(d.st, "IndexError")
    ELSE Raise([d.st EXCEPT !.patches = Append(d.st.patches,
                    Op("test", str(idx), remote_from_tuple(d.st.data[idx + 1])))],
               "TypeError")

\* a variant of append that logs the first row of the store, not the last
append_logging_first_row(s, row_data) ==
    LET a == MutableTupleSeqStore_append(s, row_data) IN
    IF a.err # "none" THEN a
    ELSE then_update([a.st EXCEPT !.patches = Append(a.st.patches,
             Op("add", "-", remote_from_tuple(a.st.data[1])))])

\* MutableJSONSeqStore.append
MutableJSONSeqStore_append(s, row_data) ==
    LET a == MutableTupleSeqStore_append(s, row_data) IN
    IF a.err # "none" THEN a
    ELSE then_update([a.st EXCEPT !.patches = Append(a.st.patches,
             Op("add", "-", remote_from_tuple(a.st.data[Len(a.st.data)])))])

\* MutableJSONAssocStore.__delitem__: write_func(index, ...) names a
\* variable that does not exist
MutableJSONAssocStore_delitem(s, idx) ==
    LET d == MutableTupleAssocStore_delitem(s, idx) IN
    IF d.err # "none" THEN d ELSE Raise(d.st, "NameError")

\* a variant of add that puts its operation at the head of the patch log
add_logging_at_head(s, index, row_data) ==
    LET a == MutableTupleAssocStore_add(s, index, row_data) IN
    IF a.err # "none" THEN a
    ELSE then_update([a.st EXCEPT !.patches =
             <<Op("add", index_write_func(index), remote_from_tuple(DictGet(a.st.data, index)))>>
                 \o a.st.patches])

\* MutableJSONAssocStore.add
MutableJSONAssocStore_add(s, index, row_data) ==
    LET a == MutableTupleAssocStore_add(s, index, row_data) IN
    IF a.err # "none" THEN a
    ELSE then_update([a.st EXCEPT !.patches = Append(a.st.patches,
             Op("add", index_write_func(index), remote_from_tuple(DictGet(a.st.data, index))))])

\* ================================================================= SpecJson
\* A mutable JSON store, driven at the store's own interface, beside another
\* writer of the document.

\* what the other writer leaves on disk
ExtRows == {<<0, 0>>, <<1, Absent>>, <<Absent, 0>>}
\* the row_data the store is given; column b is left to its default here
\* and the cell writes go to column a
JDicts == {<<0, Absent>>, <<1, 0>>, <<Absent, Absent>>}
ExtDocs ==
    {Arr(<<>>), Obj(<<>>)} \cup
    (IF kind = "seq" THEN {Arr(<<r>>) : r \in ExtRows}
     ELSE {Obj(<<<<k, r>>>>) : k \in {"1", "2"}, r \in ExtRows})

\* JSONStore.__init__: a missing file gives an empty store; a document is
\* read with from_dict, and an error there leaves no store
InitJson ==
    /\ kind \in {"seq", "assoc"}
    /\ classes = <<>>
    /\ up_on_change \in BOOLEAN
    /\ rid = <<>>
    /\ nrid = 1
    /\ rows = [h \in Handles |-> FreeRow]
    /\ refs = {}
    /\ patches = <<>>
    /\ side = {}
    /\ last = [op |-> "init", arg |-> None, err |-> "none", ret |-> None, out |-> <<>>, row |-> None]
    /\ \/ disk = NoFile /\ data = <<>>
       \/ /\ disk \in ExtDocs
          /\ LET r == from_dict([data |-> <<>>], disk) IN
             r.err = "none" /\ data = r.st.data

Room == Len(patches) < MaxLog

\* the positions, or the keys, a caller addresses
Indices == IF kind = "seq" THEN 0..MaxLen ELSE Keys

\* store.append(row_data)
JAppend(row_data) ==
    /\ kind = "seq"
    /\ Room
    /\ Len(data) < MaxLen
    /\ nrid <= MaxRid
    /\ LET r == MutableJSONSeqStore_append(St, row_data) IN
       Commit(r.st) /\ last' = Call("append", None, r)
    /\ UNCHANGED <<classes, kind, up_on_change>>

\* store.add(k, row_data)
JAdd(k, row_data) ==
    /\ kind = "assoc"
    /\ Room
    /\ Len(data) < MaxLen \/ HasKey(data, k)
    /\ LET r == MutableJSONAssocStore_add(St, k, row_data) IN
       Commit(r.st) /\ last' = Call("add", k, r)
    /\ UNCHANGED <<classes, kind, up_on_change>>

\* store[idx, col] = value
JSet(idx, col_idx, value) ==
    /\ LET r == MutableJSONStore_setitem(St, idx, col_idx, value) IN
       Commit(r.st) /\ last' = Call("set", idx, r)
    /\ UNCHANGED <<classes, kind, up_on_change>>

\* del store[idx]
JDelete(idx) ==
    /\ Room
    /\ LET r == IF kind = "seq" THEN MutableJSONSeqStore_delitem(St, idx)
                ELSE MutableJSONAssocStore_delitem(St, idx) IN
       Commit(r.st) /\ last' = Call("delete", idx, r)
    /\ UNCHANGED <<classes, kind, up_on_change>>

\* store.write()
Write ==
    /\ LET r == MutableJSONStore_write(St) IN
       Commit(r.st) /\ last' = Call("write", None, r)
    /\ UNCHANGED <<classes, kind, up_on_change>>

\* another writer replaces the document
ExtWrite(doc) ==
    /\ disk' = doc
    /\ last' = [op |-> "ext", arg |-> None, err |-> "none", ret |-> None, out |-> <<>>, row |-> None]
    /\ UNCHANGED <<classes, kind, data, rid, nrid, rows, refs, patches, side, up_on_change>>

NextJson ==
    \/ \E d \in JDicts : JAppend(d)
    \/ \E k \in Keys, d \in JDicts : JAdd(k, d)
    \/ \E i \in Indices, v \in Vals : JSet(i, 0, v)
    \/ \E i \in Indices : JDelete(i)
    \/ Write
    \/ \E doc \in ExtDocs : ExtWrite(doc)

SpecJson == InitJson /\ [][NextJson]_vars

\* ============================================================= SpecJsonLocal
\* A JSON store that is the only writer of its document and does not update
\* on change: the document is as the store loaded it or last wrote it.
InitJsonLocal == InitJson /\ up_on_change = FALSE

NextJsonLocal ==
    \/ \E d \in JDicts : JAppend(d)
    \/ \E k \in Keys, d \in JDicts : JAdd(k, d)
    \/ \E i \in Indices, v \in Vals : JSet(i, 0, v)
    \/ \E i \in Indices : JDelete(i)
    \/ Write

SpecJsonLocal == InitJsonLocal /\ [][NextJsonLocal]_vars

\* ============================================================ SpecImmutable
\* The immutable variants, TupleSeqStore and TupleAssocStore (JSONSeqStore,
\* JSONAssocStore): the mutators are the ones Store, SeqStore and AssocStore
\* define.

\* TupleSeqStore.from_remote: the rows of a loaded sequential store
RECURSIVE from_remote_from(_, _)
from_remote_from(v, j) ==
    IF j > Len(v) THEN [err |-> "none", v |-> <<>>]
    ELSE LET t == remote_to_tuple(v[j])
             rest == from_remote_from(v, j + 1) IN
         IF t.err # "none" THEN [err |-> t.err, v |-> <<>>]
         ELSE IF rest.err # "none" THEN rest
         ELSE [err |-> "none", v |-> <<t.v>> \o rest.v]

from_remote(v) == from_remote_from(v, 1)

\* a variant of item assignment that writes as the mutable stores do
setitem_of_mutable(s, row_idx, col_idx, value) ==
    IF kind = "seq" THEN MutableTupleSeqStore_setitem(s, row_idx, col_idx, value)
    ELSE MutableTupleAssocStore_setitem(s, row_idx, col_idx, value)

\* Store.__setitem__
Store_setitem(s, row_idx, col_idx, value) == Raise(s, "ValueError")

\* Store.__delitem__
Store_delitem(s, idx) == Raise(s, "ValueError")

\* SeqStore.append
SeqStore_append(s, row_data) == Raise(s, "ValueError")

\* AssocStore.add
AssocStore_add(s, index, row_data) == Raise(s, "ValueError")

\* is_mutable of the store classes, and of a database over a store
SeqStore_is_mutable == FALSE
AssocStore_is_mutable == TRUE
MutableSeqStore_is_mutable == TRUE
MutableAssocStore_is_mutable == TRUE
DBBase_is_mutable(store_is_mutable) == store_is_mutable

\* is_mutable of a TupleSeqStore or TupleAssocStore, which define none of
\* their own
Immutable_is_mutable == IF kind = "seq" THEN SeqStore_is_mutable ELSE AssocStore_is_mutable
\* is_mutable of a MutableTupleSeqStore or MutableTupleAssocStore
Mutable_is_mutable ==
    IF kind = "seq" THEN MutableSeqStore_is_mutable ELSE MutableAssocStore_is_mutable

\* the documents an immutable store is loaded from
LoadRows == UNION {[1..n -> ExtRows] : n \in 0..MaxLen}
LoadDocs ==
    {Obj(<<>>)} \cup {Obj(<<<<k, r>>>>) : k \in {"1", "2"}, r \in ExtRows}
    \cup {Obj(<<<<k, r>>, <<l, q>>>>) : k \in {"1"}, l \in {"2"}, r \in ExtRows, q \in ExtRows}
    \cup {Obj(<<<<k, r>>, <<l, q>>>>) : k \in {"2"}, l \in {"1"}, r \in ExtRows, q \in ExtRows}

\* TupleStore.__init__ with data (associative), from_remote (sequential)
InitImmutable ==
    /\ kind \in {"seq", "assoc"}
    /\ classes = <<>>
    /\ up_on_change = FALSE
    /\ rid = <<>>
    /\ nrid = 1
    /\ rows = [h \in Handles |-> FreeRow]
    /\ refs = {}
    /\ patches = <<>>
    /\ side = {}
    /\ disk = NoFile
    /\ last = [op |-> "init", arg |-> None, err |-> "none", ret |-> None, out |-> <<>>, row |-> None]
    /\ IF kind = "seq"
       THEN \E v \in LoadRows : from_remote(v).err = "none" /\ data = from_remote(v).v
       ELSE \E doc \in LoadDocs :
               LET r == from_dict([data |-> <<>>], doc) IN
               r.err = "none" /\ data = r.st.data

\* store.append(row_data) on a TupleSeqStore
ImmAppend(row_data) ==
    /\ kind = "seq"
    /\ LET r == SeqStore_append(St, row_data) IN
       Commit(r.st) /\ last' = CallRow("append", None, row_data, r)
    /\ UNCHANGED <<classes, kind, up_on_change>>

\* store.add(k, row_data) on a TupleAssocStore
ImmAdd(k, row_data) ==
    /\ kind = "assoc"
    /\ LET r == AssocStore_add(St, k, row_data) IN
       Commit(r.st) /\ last' = CallRow("add", k, row_data, r)
    /\ UNCHANGED <<classes, kind, up_on_change>>

\* store[idx, col] = value
ImmSet(idx, col_idx, value) ==
    /\ LET r == Store_setitem(St, idx, col_idx, value) IN
       Commit(r.st) /\ last' = [Call("set", idx, r) EXCEPT !.row = <<col_idx, value>>]
    /\ UNCHANGED <<classes, kind, up_on_change>>

\* del store[idx]
ImmDelete(idx) ==
    /\ LET r == Store_delitem(St, idx) IN
       Commit(r.st) /\ last' = Call("delete", idx, r)
    /\ UNCHANGED <<classes, kind, up_on_change>>

NextImmutable ==
    \/ \E d \in Dicts : ImmAppend(d)
    \/ \E k \in Keys, d \in Dicts : ImmAdd(k, d)
    \/ \E i \in Indices, c \in 0..(NCols - 1), v \in Vals : ImmSet(i, c, v)
    \/ \E i \in Indices : ImmDelete(i)

SpecImmutable == InitImmutable /\ [][NextImmutable]_vars

\* ============================================================== SpecRegistry
\* A sequential database and the Row objects registered with it.  A Row that
\* is reclaimed leaves _refs through its weakref callback, at once (Drop) or,
\* where callbacks run later, after a while (Reclaim, then Callback); until
\* then its entry is a dead reference that flush drops.

InitRegistry ==
    /\ kind = "seq"
    /\ classes = <<>>
    /\ data = <<>>
    /\ rid = <<>>
    /\ nrid = 1
    /\ rows = [h \in Handles |-> FreeRow]
    /\ refs = {}
    /\ patches = <<>>
    /\ disk = NoFile
    /\ side = {}
    /\ up_on_change = FALSE
    /\ last = [op |-> "init", arg |-> None, err |-> "none", ret |-> None, out |-> <<>>, row |-> None]

\* the entries of _refs whose Row is gone
Dead == {h \in refs : ~rows[h].held}

\* the members of a set of handles, one after another
RECURSIVE Listed(_)
Listed(S) == IF S = {} THEN <<>> ELSE <<SetMin(S)>> \o Listed(S \ {SetMin(S)})

\* a new Row object: its id is not that of an entry still in _refs
RegNewRow(h, i) == h \notin refs /\ NewRow(h, i)

\* db._references.append(row) for a Row the caller holds
Register(h) ==
    /\ rows[h].held
    /\ refs' = WeakColl_append(refs, h)
    /\ last' = [op |-> "register", arg |-> h, err |-> "none", ret |-> None, out |-> <<>>, row |-> None]
    /\ UNCHANGED <<classes, kind, data, rid, nrid, rows, patches, disk, side, up_on_change>>

\* the Row h is reclaimed and its callback has not run yet
Reclaim(h) ==
    /\ rows[h].held
    /\ h \in refs
    /\ rows' = [rows EXCEPT ![h] = FreeRow]
    /\ last' = [op |-> "reclaim", arg |-> h, err |-> "none", ret |-> None, out |-> <<>>, row |-> None]
    /\ UNCHANGED <<classes, kind, data, rid, nrid, refs, patches, disk, side, up_on_change>>

\* the weakref callback of a reclaimed Row: WeakColl.rm_by_ref
Callback(h) ==
    /\ h \in Dead
    /\ refs' = WeakColl_rm_by_ref(refs, h)
    /\ last' = [op |-> "callback", arg |-> h, err |-> "none", ret |-> None, out |-> <<>>, row |-> None]
    /\ UNCHANGED <<classes, kind, data, rid, nrid, rows, patches, disk, side, up_on_change>>

\* len(db._references); arg notes how many dead entries it met
RegLen ==
    /\ LET s == WeakColl_flush(St) IN
       /\ Commit(s)
       /\ last' = [op |-> "len", arg |-> Cardinality(Dead), err |-> "none",
                   ret |-> WeakColl_len(s), out |-> <<>>, row |-> None]
    /\ UNCHANGED <<classes, kind, up_on_change>>

\* list(db._references); arg notes how many dead entries it met
RegIter ==
    /\ LET s == WeakColl_flush(St) IN
       /\ Commit(s)
       /\ last' = [op |-> "iter", arg |-> Cardinality(Dead), err |-> "none",
                   ret |-> None, out |-> Listed(WeakColl_iter(s)), row |-> None]
    /\ UNCHANGED <<classes, kind, up_on_change>>

NextRegistry ==
    \/ Append_([c \in ColIdx |-> 0])
    \/ \E h \in Handles, i \in 0..(MaxLen - 1) : RegNewRow(h, i)
    \/ \E h \in Handles : Register(h)
    \/ \E h \in Handles : Delete(h)
    \/ \E h \in Handles : Drop(h)
    \/ \E h \in Handles : Reclaim(h)
    \/ \E h \in Handles : Callback(h)
    \/ RegLen
    \/ RegIter

SpecRegistry == InitRegistry /\ [][NextRegistry]_vars

\* =============================================================== SpecSchema
\* Database classes, defined one after another from bases that exist and a
\* class body.  A class is its position in `classes`; class 1 is DBBase.
\* A description is known by the class whose body declared it (0: the
\* built-in IndexColumnDesc()), which stands for its default and conversions.

\* the attribute names a class body uses, and the default key's name
AttrNames == {"x", "y"}
Whats == {"ColumnDesc", "IndexColumnDesc", "attr"}
Decls == [name : AttrNames, what : Whats]

\* a class body: declarations in the order they are written, names distinct
Bodies ==
    {<<>>} \cup {<<d>> : d \in Decls}
    \cup {<<d, e>> : d \in {q \in Decls : q.name = "x"}, e \in {q \in Decls : q.name = "y"}}

\* c3_merge: the first list whose head is in no list's tail gives the next
\* class; a head is then struck from every list it leads
InTail(c, l) == \E j \in 2..Len(l) : l[j] = c
GoodHeads(to_merge) ==
    {j \in 1..Len(to_merge) :
        ~\E k \in 1..Len(to_merge) : InTail(to_merge[j][1], to_merge[k])}

\* a variant of the merge that takes the last good head, not the first
RECURSIVE c3_loop_last_head(_, _)
c3_loop_last_head(to_merge, mro) ==
    IF to_merge = <<>> THEN [err |-> "none", mro |-> mro]
    ELSE IF GoodHeads(to_merge) = {} THEN [err |-> "TypeError", mro |-> mro]
    ELSE LET head == to_merge[CHOOSE j \in GoodHeads(to_merge) :
                                \A k \in GoodHeads(to_merge) : j >= k][1]
             struck == [k \in 1..Len(to_merge) |->
                           IF to_merge[k][1] = head THEN Tail(to_merge[k]) ELSE to_merge[k]]
         IN c3_loop_last_head(SelectSeq(struck, LAMBDA l : l # <<>>), Append(mro, head))

RECURSIVE c3_loop(_, _)
c3_loop(to_merge, mro) ==
    IF to_merge = <<>> THEN [err |-> "none", mro |-> mro]
    ELSE IF GoodHeads(to_merge) = {} THEN [err |-> "TypeError", mro |-> mro]
    ELSE LET head == to_merge[SetMin(GoodHeads(to_merge))][1]
             struck == [k \in 1..Len(to_merge) |->
                           IF to_merge[k][1] = head THEN Tail(to_merge[k]) ELSE to_merge[k]]
         IN c3_loop(SelectSeq(struck, LAMBDA l : l # <<>>), Append(mro, head))

c3_merge(cls, bases) ==
    IF bases = <<>> THEN [err |-> "none", mro |-> <<>>]
    ELSE c3_loop([j \in 1..Len(bases) |-> cls[bases[j]].mro] \o <<bases>>, <<>>)

Reverse(q) == [j \in 1..Len(q) |-> q[Len(q) + 1 - j]]

\* IndexColumn("index", IndexColumnDesc())
DefaultIndexColumn ==
    [name |-> "index", desc |-> [by |-> 0, what |-> "IndexColumnDesc"], obj |-> "IndexColumn"]

\* DBBase: no columns, the default key
DBBaseClass ==
    [bases |-> <<>>, dct |-> <<>>, mro |-> <<1>>, attrs |-> {"index"}, columns |-> <<>>,
     index |-> DefaultIndexColumn]

\* for col in base._columns: column_descs[col.name] = col._desc
RECURSIVE base_columns(_, _, _)
base_columns(column_descs, cols, j) ==
    IF j > Len(cols) THEN column_descs
    ELSE base_columns(DictSet(column_descs, cols[j].name, cols[j].desc), cols, j + 1)

\* DBMeta.__new__, the walk over reversed(mro): the columns of each base,
\* its key column, and the removal of every name of the base's __dict__
\* that is not a column of the base
RECURSIVE base_walk(_, _, _, _)
base_walk(cls, rmro, j, acc) ==
    IF j > Len(rmro) THEN acc
    ELSE LET base == cls[rmro[j]]
             this_columns == {base.columns[i].name : i \in 1..Len(base.columns)}
             set == base_columns(acc.column_descs, base.columns, 1)
             kept == SelectSeq(set, LAMBDA p : ~(p[1] \in base.attrs /\ p[1] \notin this_columns))
         IN base_walk(cls, rmro, j + 1,
                      [column_descs |-> kept, base_index_column |-> base.index])

NoIndexColumn == [name |-> "", desc |-> [by |-> 0, what |-> "none"], obj |-> "none"]

\* a variant of the class body's pass in which a redeclared column leaves
\* its place and is entered anew, after the others
RECURSIVE local_decls_entering_anew(_, _, _, _)
local_decls_entering_anew(me, dct, j, acc) ==
    IF j > Len(dct) \/ acc.err # "none" THEN acc
    ELSE LET d == dct[j] IN
         IF d.what = "ColumnDesc"
         THEN local_decls_entering_anew(me, dct, j + 1,
                  [acc EXCEPT !.column_descs =
                       Append(SelectSeq(acc.column_descs, LAMBDA p : p[1] # d.name),
                              <<d.name, [by |-> me, what |-> "ColumnDesc"]>>)])
         ELSE IF d.what = "IndexColumnDesc"
         THEN (IF acc.this_idx_col.obj = "none"
               THEN local_decls_entering_anew(me, dct, j + 1,
                        [acc EXCEPT !.this_idx_col =
                             [name |-> d.name, desc |-> [by |-> me, what |-> "IndexColumnDesc"],
                              obj |-> "IndexColumn"]])
               ELSE [acc EXCEPT !.err = "ValueError"])
         ELSE local_decls_entering_anew(me, dct, j + 1, acc)

\* DBMeta.__new__, the class body: a ColumnDesc enters column_descs, an
\* IndexColumnDesc becomes this_idx_col, a second one is an error
RECURSIVE local_decls(_, _, _, _)
local_decls(me, dct, j, acc) ==
    IF j > Len(dct) \/ acc.err # "none" THEN acc
    ELSE LET d == dct[j] IN
         IF d.what = "ColumnDesc"
         THEN local_decls(me, dct, j + 1,
                  [acc EXCEPT !.column_descs =
                       DictSet(acc.column_descs, d.name, [by |-> me, what |-> "ColumnDesc"])])
         ELSE IF d.what = "IndexColumnDesc"
         THEN (IF acc.this_idx_col = NoIndexColumn
               THEN local_decls(me, dct, j + 1,
                        [acc EXCEPT !.this_idx_col =
                             [name |-> d.name, desc |-> [by |-> me, what |-> "IndexColumnDesc"],
                              obj |-> "IndexColumn"]])
               ELSE [acc EXCEPT !.err = "ValueError"])
         ELSE local_decls(me, dct, j + 1, acc)

\* DBMeta.__new__(name, bases, dct) for the class that will be number `me`
DBMeta_new(cls, me, bases, dct) ==
    LET m == c3_merge(cls, bases) IN
    IF m.err # "none" THEN [err |-> m.err, cls |-> DBBaseClass]
    ELSE LET w == base_walk(cls, Reverse(m.mro), 1,
                      [column_descs |-> <<>>, base_index_column |-> DefaultIndexColumn])
             l == local_decls(me, dct, 1,
                      [column_descs |-> w.column_descs, this_idx_col |-> NoIndexColumn,
                       err |-> "none"])
         IN IF l.err # "none" THEN [err |-> l.err, cls |-> DBBaseClass]
            ELSE LET index_column == IF l.this_idx_col = NoIndexColumn
                                     THEN w.base_index_column ELSE l.this_idx_col
                     columns == [i \in 1..Len(l.column_descs) |->
                                    [name |-> l.column_descs[i][1],
                                     index |-> i - 1,
                                     desc |-> l.column_descs[i][2]]]
                 IN [err |-> "none",
                     cls |-> [bases |-> bases,
                              dct |-> dct,
                              mro |-> <<me>> \o m.mro,
                              attrs |-> {dct[i].name : i \in 1..Len(dct)}
                                        \cup {index_column.name}
                                        \cup {columns[i].name : i \in 1..Len(columns)},
                              columns |-> columns,
                              \* dct[c_name] = col_cls(...) is assigned after
                              \* dct[index_column.name] = index_column
                              index |-> IF HasKey(l.column_descs, index_column.name)
                                        THEN [name |-> index_column.name,
                                              desc |-> DictGet(l.column_descs, index_column.name),
                                              obj |-> "Column"]
                                        ELSE index_column]]

\* the lists of bases a class statement names: one class that exists, or
\* two different ones defined from DBBase
BaseLists(n) == {<<b>> : b \in 1..n} \cup {p \in (2..n) \X (2..n) : p[1] # p[2]}

InitSchema ==
    /\ kind = "seq"
    /\ up_on_change = FALSE
    /\ data = <<>>
    /\ rid = <<>>
    /\ nrid = 1
    /\ rows = [h \in Handles |-> FreeRow]
    /\ refs = {}
    /\ patches = <<>>
    /\ side = {}
    /\ disk = NoFile
    /\ classes = <<DBBaseClass>>
    /\ last = [op |-> "init", arg |-> None, err |-> "none", ret |-> None, out |-> <<>>, row |-> None]

\* the classes defined and the attributes their bodies declare
RECURSIVE Size(_, _)
Size(cls, j) == IF j > Len(cls) THEN 0 ELSE 1 + Len(cls[j].dct) + Size(cls, j + 1)

\* class <n>(<bases>): <dct>; a definition that fails leaves no class
DefineClass(bases, dct) ==
    /\ Len(classes) < MaxClasses
    /\ Size(classes, 2) + 1 + Len(dct) <= MaxSize
    /\ LET r == DBMeta_new(classes, Len(classes) + 1, bases, dct) IN
       IF r.err = "none"
       THEN /\ classes' = Append(classes, r.cls)
            /\ last' = [op |-> "class", arg |-> None, err |-> "none", ret |-> None,
                        out |-> <<>>, row |-> None]
       ELSE /\ classes' = classes
            /\ last' = [op |-> "class", err |-> r.err, ret |-> None, out |-> <<>>,
                        arg |-> IF r.err = "TypeError" THEN bases ELSE None,
                        row |-> IF r.err = "ValueError" THEN dct ELSE None]
    /\ UNCHANGED <<kind, data, rid, nrid, rows, refs, patches, disk, side, up_on_change>>

NextSchema ==
    \E bases \in BaseLists(Len(classes)), dct \in Bodies : DefineClass(bases, dct)

SpecSchema == InitSchema /\ [][NextSchema]_vars

\* =================================================================== claims
Live == {h \in refs : rows[h].held}

\* C1: on a mutable sequential table every live registered Row has a
\* position in 0..len-1 and denotes the logical row it denoted when it was
\* obtained, also a second Row of a row deleted through another Row.
C1_HandlesDenoteTheirRow ==
    kind = "seq" =>
        \A h \in Live :
            /\ rows[h].index \in 0..(Len(data) - 1)
            /\ rid[rows[h].index + 1] = rows[h].row

\* C2: a delete at position i moves every registered live Row at a position
\* greater than i down by exactly one and leaves those below i where they
\* were.
C2_DeleteShiftsLaterHandles ==
    [][(kind = "seq" /\ last'.op = "delete" /\ last'.err = "none") =>
        \A g \in Live :
            /\ rows[g].index > last'.arg => rows'[g].index = rows[g].index - 1
            /\ rows[g].index < last'.arg => rows'[g].index = rows[g].index]_vars

\* the ranks (1-based, in table order) a selection selects
Selected(selection) ==
    {j \in 1..Min(Len(data), Len(selection)) : selection[j]}

\* the index of the Row at rank j: the position, or the key
IndexAt(j) == IF kind = "seq" THEN j - 1 ELSE DictKeys(data)[j]

RECURSIVE SelectedFrom(_, _)
SelectedFrom(selection, j) ==
    IF j > Min(Len(data), Len(selection)) THEN <<>>
    ELSE (IF selection[j] THEN <<IndexAt(j)>> ELSE <<>>) \o SelectedFrom(selection, j + 1)

\* C8: select_one raises the no-match error when nothing is selected, the
\* multiple-matches error when two or more rows are, and returns the Row of
\* the selected row when exactly one is.
C8_SelectOneContract ==
    last.op = "select_one" =>
        LET hit == Selected(last.arg) IN
        /\ Cardinality(hit) = 0 => last.err = "KeyError: No rows selected!"
        /\ Cardinality(hit) >= 2 => last.err = "KeyError: More than one row selected!"
        /\ Cardinality(hit) = 1 =>
               /\ last.err = "none"
               /\ \A j \in hit : last.ret = IndexAt(j)

\* C9: select yields, in table order, a Row for exactly the ranks below
\* min(len(table), len(selection)) whose selection value is true, and ends.
C9_SelectContract ==
    last.op = "select" =>
        /\ last.err = "none"
        /\ last.out = SelectedFrom(last.arg, 1)

\* C10: get on a sequential table of length n returns a Row at i for
\* 0 <= i < n and at n+i for -n <= i < 0 and raises for any other i; on an
\* associative table it returns a Row for a stored key and raises for
\* another; a failing get registers nothing.
C10_GetContract ==
    [][last'.op = "get" =>
        /\ last'.err # "none" => refs' = refs
        /\ kind = "seq" =>
              LET n == Len(data)
                  i == last'.arg IN
              /\ (0 <= i /\ i < n) => (last'.err = "none" /\ last'.ret = i)
              /\ (0 - n <= i /\ i < 0) => (last'.err = "none" /\ last'.ret = n + i)
              /\ (i >= n \/ i < 0 - n) => last'.err = "IndexError"
        /\ kind = "assoc" =>
              /\ HasKey(data, last'.arg) =>
                    (last'.err = "none" /\ last'.ret = last'.arg)
              /\ ~HasKey(data, last'.arg) => last'.err = "KeyError"]_vars

\* ---------------------------------------------------------- flush claims
\* two documents are the same JSON value: the members of an object in any
\* order
JsonEq(d, e) ==
    /\ d.t = e.t
    /\ IF d.t = "obj"
       THEN /\ Range(DictKeys(d.v)) = Range(DictKeys(e.v))
            /\ \A k \in Range(DictKeys(d.v)) : DictGet(d.v, k) = DictGet(e.v, k)
       ELSE d.v = e.v

IsPrefix(p, q) == Len(p) <= Len(q) /\ SubSeq(q, 1, Len(p)) = p

\* the patch log applies to the document that write() re-reads
Applies == IsDoc(disk) /\ JsonPatch_apply(disk, patches).err = "none"
Conflicts == IsDoc(disk) /\ JsonPatch_apply(disk, patches).err # "none"

\* C3: a flush whose patch log does not apply to the re-read document
\* reports an error and leaves the primary document, the patch log and the
\* rows in memory as they were.
C3_ConflictLeavesAllUnchanged ==
    [][(last'.op = "write" /\ Conflicts) =>
        /\ last'.err # "none"
        /\ disk' = disk
        /\ patches' = patches
        /\ data' = data]_vars

\* a flush has just failed on a patch log that still does not apply
C3_Witness ==
    /\ last.op = "write"
    /\ last.err # "none"
    /\ Conflicts
    /\ patches # <<>>
    /\ data # <<>>

\* C4: when every operation of the log applies to the re-read document,
\* flush overwrites the primary document with exactly that document after
\* the log's operations, in log order.
C4_FlushWritesPatchedDocument ==
    [][(last'.op = "write" /\ Applies) =>
        /\ last'.err = "none"
        /\ JsonEq(disk', JsonPatch_apply(disk, patches).doc)]_vars

\* C5: right after a flush that succeeds the patch log is empty.
C5_LogEmptyAfterFlush ==
    (last.op = "write" /\ last.err = "none") => patches = <<>>

\* C6: after a successful flush a second flush, with nothing done in
\* between, succeeds and changes neither the primary document nor the rows.
C6_SecondFlushIsNoOp ==
    [][(last.op = "write" /\ last.err = "none" /\ last'.op = "write") =>
        /\ last'.err = "none"
        /\ disk' = disk
        /\ data' = data]_vars

\* C7: short of a successful flush, no step removes, reorders or rewrites
\* an entry of the patch log: the log before is a prefix of the log after.
C7_LogAppendOnly ==
    [][~(last'.op = "write" /\ last'.err = "none") => IsPrefix(patches, patches')]_vars

\* a mutation has failed, or reloaded the rows, over a log of two entries
C7_Witness ==
    /\ Len(patches) >= 2
    /\ \/ last.op \in {"set", "delete", "write"} /\ last.err # "none"
       \/ last.op = "add" /\ up_on_change /\ IsDoc(disk) /\ last.err = "none"

\* ------------------------------------------------------- row creation
\* the row the last append / add left in the store
NewRowOf(d, k) == IF kind = "seq" THEN d[Len(d)] ELSE DictGet(d, k)

\* append / add put one row into the store and left the others alone
OneRowMore(k) ==
    IF kind = "seq" THEN Len(data') = Len(data) + 1 /\ SubSeq(data', 1, Len(data)) = data
    ELSE /\ HasKey(data', k)
         /\ Len(data') = Len(data) + 1
         /\ \A j \in 1..Len(data) : data'[j] = data[j]

\* C11 as stated: append / add leave in the new row, for a supplied column,
\* the supplied value after the column's store conversion and, for an
\* omitted one, the declared default; an omitted column without a default
\* makes the call raise and leaves the rows unchanged.
C11_NewRowHoldsDeclaredDefaults ==
    [][(last'.op \in {"append", "add"} /\ ~(kind = "assoc" /\ HasKey(data, last'.arg))) =>
        IF read_misses(last'.row)
        THEN last'.err = "KeyError" /\ data' = data
        ELSE /\ last'.err = "none"
             /\ OneRowMore(last'.arg)
             /\ NewRowOf(data', last'.arg) =
                    [c \in ColIdx |-> IF last'.row[c] = Absent THEN default(c)
                                      ELSE store_type(c, last'.row[c])]]_vars

\* C11 amended: the default of an omitted column goes through the column's
\* store conversion too, as a supplied value does.
C11_NewRowHoldsConvertedValues ==
    [][(last'.op \in {"append", "add"} /\ ~(kind = "assoc" /\ HasKey(data, last'.arg))) =>
        IF read_misses(last'.row)
        THEN last'.err = "KeyError" /\ data' = data
        ELSE /\ last'.err = "none"
             /\ OneRowMore(last'.arg)
             /\ NewRowOf(data', last'.arg) =
                    [c \in ColIdx |-> store_type(c, IF last'.row[c] = Absent THEN default(c)
                                                    ELSE last'.row[c])]]_vars

\* a row was created with column b omitted and column a supplied
C11_Witness ==
    /\ last.op \in {"append", "add"}
    /\ last.err = "none"
    /\ last.row[1] = 1
    /\ last.row[2] = Absent
    /\ NewRowOf(data, last.arg) = <<1, store_type(2, default(2))>>
    /\ Len(data) = 2

\* C12: add with a key the mutable associative store already holds raises
\* the duplicate-key error and leaves every row and the patch log as they
\* were.
C12_DuplicateAddChangesNothing ==
    [][(kind = "assoc" /\ last'.op = "add" /\ HasKey(data, last'.arg)) =>
        /\ last'.err = "KeyError"
        /\ data' = data
        /\ patches' = patches
        /\ disk' = disk]_vars

\* an add of a stored key has just failed, beside another row and a patch log
C12_Witness ==
    /\ kind = "assoc"
    /\ last.op = "add"
    /\ last.err = "KeyError"
    /\ HasKey(data, last.arg)
    /\ Len(data) = 2
    /\ patches # <<>>

\* C13: on an immutable store, sequential or associative, append, add,
\* item assignment and row deletion each raise the store-is-immutable error
\* and leave the stored rows unchanged.
C13_ImmutableStoreRefusesWrites ==
    [][last'.op \in {"append", "add", "set", "delete"} =>
        /\ last'.err = "ValueError"
        /\ data' = data]_vars

\* an item assignment to a row the immutable store holds has been refused
C13_Witness ==
    /\ last.op = "set"
    /\ last.err = "ValueError"
    /\ Len(data) = 2
    /\ IF kind = "seq" THEN last.arg < Len(data) ELSE HasKey(data, last.arg)

\* ------------------------------------------------- what a mutation logs
\* the row at a position, or under a key
RowAt(d, idx) == IF kind = "seq" THEN d[idx + 1] ELSE DictGet(d, idx)
Holds(d, idx) == IF kind = "seq" THEN idx >= 0 /\ idx < Len(d) ELSE HasKey(d, idx)

\* C14: deleting the row with key k from a mutable associative JSON store
\* removes the row and appends exactly one operation, remove at "/" + the
\* remote form of k.
C14_AssocDeleteLogsRemove ==
    [][(kind = "assoc" /\ last'.op = "delete" /\ HasKey(data, last'.arg)) =>
        /\ last'.err = "none"
        /\ ~HasKey(data', last'.arg)
        /\ patches' = Append(patches, Op("remove", index_write_func(last'.arg), NoValue))]_vars

\* C15: deleting position i from a mutable sequential JSON store appends a
\* test operation at "/i" holding the remote form of the row as it was
\* before the removal and then a remove operation at "/i", for every i up
\* to the last position.
C15_SeqDeleteLogsTestThenRemove ==
    [][(kind = "seq" /\ last'.op = "delete" /\ Holds(data, last'.arg)) =>
        /\ last'.err = "none"
        /\ patches' = patches \o
               << Op("test", str(last'.arg), remote_from_tuple(RowAt(data, last'.arg))),
                  Op("remove", str(last'.arg), NoValue) >>]_vars

\* C16: a row creation that succeeds appends exactly one add operation,
\* whose value is the remote form of the new row: at "/-" for append, at
\* "/" + the remote form of the key for add.
C16_CreationLogsOneAdd ==
    [][(last'.op \in {"append", "add"} /\ last'.err = "none") =>
        IF kind = "seq"
        THEN patches' = Append(patches,
                 Op("add", "-", remote_from_tuple(RowAt(data', Len(data') - 1))))
        ELSE patches' = Append(patches,
                 Op("add", index_write_func(last'.arg),
                    remote_from_tuple(RowAt(data', last'.arg))))]_vars

\* a row was created after another one, with one operation logged for each
C16_Witness ==
    /\ last.op \in {"append", "add"}
    /\ last.err = "none"
    /\ Len(data) = 2
    /\ Len(patches) = 2
    /\ patches[2].op = "add"
    /\ patches[2].value = remote_from_tuple(IF kind = "seq" THEN data[2] ELSE data[2][2])
    /\ patches[2].value # patches[1].value

\* the operations that turn one row object into another: a replace for each
\* column that differs, at "/<key>/<column>"
RowDelta(tok, before, after) ==
    IF before = after THEN <<>>
    ELSE IF before[1] # after[1] /\ before[2] # after[2]
    THEN << [op |-> "replace", path |-> <<tok, "a">>, value |-> after[1]],
            [op |-> "replace", path |-> <<tok, "b">>, value |-> after[2]] >>
    ELSE IF before[1] # after[1]
    THEN << [op |-> "replace", path |-> <<tok, "a">>, value |-> after[1]] >>
    ELSE << [op |-> "replace", path |-> <<tok, "b">>, value |-> after[2]] >>

\* C17: a cell write on a mutable JSON store completes without error and
\* appends exactly the operations that turn the row's remote form before
\* the write into its remote form after it, under the row's document key;
\* nothing when the form does not change.
C17_SetLogsRowDelta ==
    [][(last'.op = "set" /\ Holds(data, last'.arg)) =>
        /\ last'.err = "none"
        /\ patches' = patches \o
               RowDelta(str(last'.arg),
                        remote_from_tuple(RowAt(data, last'.arg)),
                        remote_from_tuple(RowAt(data', last'.arg)))]_vars

\* ------------------------------------------------------ resolved schemas
\* the classes a class statement has defined
Defined == 2..Len(classes)

KeyDecls(dct) == {j \in 1..Len(dct) : dct[j].what = "IndexColumnDesc"}
DeclaresKey(c) == KeyDecls(classes[c].dct) # {}
DeclaresColumn(c, n) ==
    \E j \in 1..Len(classes[c].dct) :
        classes[c].dct[j].name = n /\ classes[c].dct[j].what = "ColumnDesc"

\* C18: in every class DBMeta accepts the data columns have pairwise
\* distinct names, their slots are 0..n-1 in column order, and the one key
\* column that is designated is a key-column object.
C18_ResolvedSchemaWellFormed ==
    \A c \in Defined :
        LET cols == classes[c].columns IN
        /\ \A i, j \in 1..Len(cols) : cols[i].name = cols[j].name => i = j
        /\ \A i \in 1..Len(cols) : cols[i].index = i - 1
        /\ classes[c].index.name \in classes[c].attrs
        /\ classes[c].index.obj = "IndexColumn"

\* the column names of a class in the order of their first declaration,
\* the least specific class of the linearisation first
RECURSIVE FirstDeclared(_, _, _, _)
FirstDeclared(rmro, j, k, acc) ==
    IF j > Len(rmro) THEN acc
    ELSE IF k > Len(classes[rmro[j]].dct) THEN FirstDeclared(rmro, j + 1, 1, acc)
    ELSE LET d == classes[rmro[j]].dct[k] IN
         FirstDeclared(rmro, j, k + 1,
             IF d.what = "ColumnDesc" /\ ~\E i \in 1..Len(acc) : acc[i] = d.name
             THEN Append(acc, d.name) ELSE acc)

SlotOf(names, n) == (CHOOSE i \in 1..Len(names) : names[i] = n) - 1

Shadowed(c) ==
    \E j \in 2..Len(classes[c].mro) :
        LET base == classes[classes[c].mro[j]] IN
        \E n \in base.attrs :
            /\ \E k \in 1..Len(classes[c].mro) : DeclaresColumn(classes[c].mro[k], n)
            /\ \A i \in 1..Len(base.columns) : base.columns[i].name # n

C19_WitnessShadowed ==
    \E c \in Defined : \E n \in AttrNames :
        /\ Shadowed(c)
        /\ DeclaresColumn(c, n)
        /\ \E j \in 2..Len(classes[c].mro) : DeclaresColumn(classes[c].mro[j], n)

\* the key column the rule gives a class: the one declared by the first
\* class of its linearisation (itself first) that declares one, or the
\* built-in default
ExpectedKey(c) ==
    LET mro == classes[c].mro
        ds == {j \in 1..Len(mro) : DeclaresKey(mro[j])} IN
    IF ds = {} THEN [name |-> "index", by |-> 0]
    ELSE LET m == mro[SetMin(ds)]
             dct == classes[m].dct IN
         [name |-> dct[CHOOSE j \in KeyDecls(dct) : TRUE].name, by |-> m]

\* C20: a class body that declares two key columns is refused; otherwise
\* the key column is the one the body declares, or else that of the most
\* specific class of the linearisation that declares one, or else the
\* built-in default.
C20_KeyColumnRule ==
    /\ (last.op = "class" /\ last.err = "ValueError") => Cardinality(KeyDecls(last.row)) >= 2
    /\ \A c \in Defined :
        /\ Cardinality(KeyDecls(classes[c].dct)) <= 1
        /\ classes[c].index.name = ExpectedKey(c).name
        /\ classes[c].index.obj = "IndexColumn" => classes[c].index.desc.by = ExpectedKey(c).by

\* ----------------------------------------------------------- linearisation
\* the lists c3_merge is given for these bases: each base's linearisation,
\* then the bases as declared
Chains(bases) == [j \in 1..Len(bases) |-> classes[bases[j]].mro] \o <<bases>>
Elems(q) == {q[j] : j \in 1..Len(q)}
ChainElems(chains) == UNION {Elems(chains[j]) : j \in 1..Len(chains)}
NoRepeat(q) == \A i, j \in 1..Len(q) : q[i] = q[j] => i = j
PosIn(q, x) == CHOOSE i \in 1..Len(q) : q[i] = x

\* l is a subsequence of the repetition-free q
Subsequence(l, q) ==
    /\ Elems(l) \subseteq Elems(q)
    /\ \A i, j \in 1..Len(l) : i < j => PosIn(q, l[i]) < PosIn(q, l[j])

\* what is left of the lists once the classes of `done` are struck
Pending(chains, done) ==
    SelectSeq([j \in 1..Len(chains) |-> SelectSeq(chains[j], LAMBDA x : x \notin done)],
              LAMBDA l : l # <<>>)

\* the i-th class of m is the head of the first pending list whose head is
\* in the tail of no pending list
StepRule(chains, m) ==
    \A i \in 1..Len(m) :
        LET p == Pending(chains, {m[k] : k \in 1..(i - 1)})
            good == {j \in 1..Len(p) : \A k \in 1..Len(p) : ~InTail(p[j][1], p[k])}
        IN good # {} /\ m[i] = p[SetMin(good)][1]

\* some order of the classes keeps the order of every list
Orderable(chains) ==
    LET E == ChainElems(chains) IN
    \E f \in [E -> 1..Cardinality(E)] :
        /\ \A a, b \in E : f[a] = f[b] => a = b
        /\ \A j \in 1..Len(chains) : \A a, b \in 1..Len(chains[j]) :
               a < b => f[chains[j][a]] < f[chains[j][b]]

\* C21: the linearisation c3_merge returns holds each class of its input
\* lists once, keeps the order of every input list, and is built by taking
\* at each step the first pending head that is in no pending tail; it
\* raises exactly when the lists admit no such head, which is when no order
\* keeps them all.
C21_MergeIsC3Linearisation ==
    /\ \A c \in Defined :
        LET chains == Chains(classes[c].bases)
            m == Tail(classes[c].mro) IN
        /\ NoRepeat(m)
        /\ Elems(m) = ChainElems(chains)
        /\ \A j \in 1..Len(chains) : Subsequence(chains[j], m)
        /\ StepRule(chains, m)
        /\ Orderable(chains)
    /\ (last.op = "class" /\ last.err = "TypeError") => ~Orderable(Chains(last.arg))

\* a class statement refused for its bases
C21_WitnessRefused == last.op = "class" /\ last.err = "TypeError"

\* a class of two bases where two heads are good at one step
C21_Witness ==
    \E c \in Defined :
        /\ Len(classes[c].bases) = 2
        /\ \E i \in 1..(Len(classes[c].mro) - 1) :
              LET p == Pending(Chains(classes[c].bases),
                               {classes[c].mro[k + 1] : k \in 1..(i - 1)})
              IN Cardinality({p[j][1] : j \in {j \in 1..Len(p) :
                                 \A k \in 1..Len(p) : ~InTail(p[j][1], p[k])}}) >= 2

\* ------------------------------------------------------------- side files
SideNames(files) == {f[1] : f \in files}

\* C22: a flush whose patch log does not apply writes two side files,
\* "<db_file>.<stamp>" with the table's current state and
\* "<db_file>.<stamp>.jsonpatch" with the patch log, and no other.
C22_ConflictWritesTwoSideFiles ==
    [][(last'.op = "write" /\ Conflicts) =>
        /\ SideNames(side') = {"stamp", "stamp.jsonpatch"}
        /\ \A f \in side' : f[2] # ""]_vars

\* --------------------------------------------------------------- shadowing
DeclaresAttr(c, n) ==
    \E j \in 1..Len(classes[c].dct) :
        classes[c].dct[j].name = n /\ classes[c].dct[j].what = "attr"
ColumnNamesOf(c) == {classes[c].columns[i].name : i \in 1..Len(classes[c].columns)}

\* C23: a column of a less specific class is absent from the schema of a
\* class when the class itself or a class between them in its linearisation
\* declares a plain attribute of that name (and no class more specific than
\* the shadowing one declares the column again).
C23_ShadowedColumnAbsent ==
    \A c \in Defined : \A n \in AttrNames :
        LET mro == classes[c].mro IN
        \A j \in 1..Len(mro) :
            (/\ DeclaresAttr(mro[j], n)
             /\ \E k \in (j + 1)..Len(mro) : DeclaresColumn(mro[k], n)
             /\ \A i \in 1..(j - 1) : ~DeclaresColumn(mro[i], n)) =>
                n \notin ColumnNamesOf(c)

\* ---------------------------------------------------------- all or nothing
\* C24: an append, add or set on a JSON store that raises leaves the rows
\* and the patch log as they were; one that returns has changed the rows'
\* record and lengthened the patch log.
C24_MutationAllOrNothing ==
    [][(last'.op \in {"append", "add", "set"}) =>
        /\ last'.err # "none" => (data' = data /\ patches' = patches)
        /\ last'.err = "none" =>
              (IsPrefix(patches, patches') /\ Len(patches') > Len(patches))]_vars

\* ---------------------------------------------------------------- registry
\* a delete through a Row at a position the store holds
DeleteAt(i) == last'.op = "delete" /\ last'.err = "none" /\ last'.arg = i

\* C25: registering a Row again leaves its one entry and every other entry
\* as they are; a new Row is entered beside the Rows already registered,
\* also beside one that holds the same position; and a delete moves every
\* live registered Row of a position above the deleted one down by one, so
\* that two Rows of one position move together.
C25_RegisterByIdentityOnce ==
    [][/\ \A h \in Handles : (last'.op = "register" /\ last'.arg = h) =>
              (h \in refs' /\ refs' \ {h} = refs \ {h} /\ rows' = rows)
       /\ \A h \in Handles : (last'.op = "row" /\ ~rows[h].held /\ rows'[h].held) =>
              (h \in refs' /\ refs' = refs \cup {h}
               /\ \A g \in Handles \ {h} : rows'[g] = rows[g])
       /\ \A i \in 0..(MaxLen - 1) : DeleteAt(i) =>
              \A g \in Live \ {last'.ret} :
                  rows[g].index \in (i + 1)..(Len(data) - 1) =>
                      (g \in refs' /\ rows'[g].index = rows[g].index - 1)]_vars

\* two Rows of one position, registered both, after a delete below them
C25_Witness ==
    /\ last.op = "delete" /\ last.err = "none"
    /\ \E g, h \in Live :
          /\ g # h
          /\ rows[g].index = rows[h].index
          /\ rows[g].index >= last.arg
          /\ rows[g].index < Len(rid)
          /\ rows[g].row = rid[rows[g].index + 1]
          /\ rows[h].row = rid[rows[h].index + 1]

\* a Row registered a second time
C25_WitnessRegisteredAgain ==
    last.op = "register" /\ last.arg \in refs /\ Cardinality(refs) >= 2

\* C26: once a registered Row is reclaimed, len(_references) counts the
\* live registered Rows only, iteration yields exactly those, and the remap
\* pass of a delete leaves the reclaimed Row alone, moves the live ones and
\* raises nothing; none of the three leaves a dead entry behind.
C26_ReclaimedRowsAreDropped ==
    [][/\ last'.op = "len" => (last'.err = "none" /\ last'.ret = Cardinality(Live))
       /\ last'.op = "iter" => (last'.err = "none" /\ Range(last'.out) = Live)
       /\ last'.op \in {"len", "iter"} => (refs' = Live /\ rows' = rows)
       /\ \A h \in Handles :
              (last'.op = "delete" /\ last'.ret = h /\ rows[h].held
               /\ rows[h].index < Len(data)) =>
                  /\ last'.err = "none"
                  /\ \A g \in Dead : rows'[g] = rows[g]
                  /\ rows[h].index < Len(data) - 1 => refs' = Live \ {h}
                  /\ \A g \in Live \ {h} :
                        rows'[g].index = IF rows[g].index \in (rows[h].index + 1)..(Len(data) - 1)
                                         THEN rows[g].index - 1 ELSE rows[g].index]_vars

\* an iteration that met a dead entry and yielded a live Row
C26_Witness ==
    /\ last.op = "iter"
    /\ last.arg > 0
    /\ last.out # <<>>

\* ------------------------------------------------------------------ replay
\* the document as it was at the last load or flush that succeeded, when the
\* store is its only writer; no document is the empty one
BaseDoc == IF IsDoc(disk) THEN disk ELSE IF kind = "seq" THEN Arr(<<>>) ELSE Obj(<<>>)

\* the JSON representation of the rows in memory
RemoteOfRows ==
    IF kind = "seq" THEN Arr([j \in 1..Len(data) |-> remote_from_tuple(data[j])])
    ELSE Obj([j \in 1..Len(data) |->
                 <<index_write_func(data[j][1]), remote_from_tuple(data[j][2])>>])

\* C27: without update-on-change the patch log, applied in order to the
\* document of the last load or successful flush, gives the JSON
\* representation of the rows in memory.
C27_LogReplaysToRows ==
    LET p == JsonPatch_apply(BaseDoc, patches) IN
    /\ p.err = "none"
    /\ JsonEq(p.doc, RemoteOfRows)

\* the same, of the operations alone: one that starts where the log replays
\* to the rows ends there
C27_OperationsKeepReplay ==
    [][(last'.op \in {"append", "add", "set", "delete"} /\ C27_LogReplaysToRows) =>
          C27_LogReplaysToRows']_vars

\* -------------------------------------------------------------- is_mutable
\* C28: is_mutable is false for the immutable sequential and the immutable
\* associative store, which refuse every write, and true for the two
\* mutable stores; the database's is_mutable is its store's.
C28_IsMutableTellsWrites ==
    [][last'.op \in {"append", "add", "set", "delete"} =>
          /\ Immutable_is_mutable = (last'.err # "ValueError")
          /\ DBBase_is_mutable(Immutable_is_mutable) = Immutable_is_mutable
          /\ Mutable_is_mutable /\ DBBase_is_mutable(Mutable_is_mutable)]_vars

\* ------------------------------------------------------------ frame of set
\* the tuple at a place of the store, and the key kept there
TupleAt(d, j) == IF kind = "seq" THEN d[j] ELSE d[j][2]
KeyAt(d, j) == IF kind = "seq" THEN j - 1 ELSE d[j][1]

\* the cells that differ between two stores of one shape
Changed(d, e) ==
    {<<j, c>> \in (1..Len(d)) \X ColIdx : TupleAt(d, j)[c] # TupleAt(e, j)[c]}

Declarer(c, n) ==
    LET mro == classes[c].mro IN
    mro[SetMin({j \in 1..Len(mro) : DeclaresColumn(mro[j], n)})]

\* C30: the description of each column of a resolved schema is the one of
\* the most specific class of the linearisation that declares the column.
C30_MostSpecificDeclarationWins ==
    \A c \in Defined : \A i \in 1..Len(classes[c].columns) :
        LET col == classes[c].columns[i] IN
        /\ \E j \in 1..Len(classes[c].mro) : DeclaresColumn(classes[c].mro[j], col.name)
        /\ col.desc = [by |-> Declarer(c, col.name), what |-> "ColumnDesc"]

====
